---------------------------- MODULE Spec2Model ----------------------------
(***************************************************************************)
(* A model of gotag-validator v2 (src/v2/validator.go): the construction   *)
(* of the engine, the Validate dispatcher, the translation of violations   *)
(* into InvalidParam entries, the field name resolver and the date-gte     *)
(* rule.                                                                   *)
(*                                                                         *)
(* Go strings are TLA+ strings; positions are 1-based here and 0-based in  *)
(* the source.                                                             *)
(***************************************************************************)
EXTENDS Integers, Sequences, FiniteSets, TLC

VARIABLES
    op,     \* the operation that ran last
    arg,    \* its input
    ret,    \* what it returned (or that it panicked)
    gv,     \* the engine instance the caller holds (genericValidator)
    cannotBeEmptyArrayProblemJSON,  \* the package-level *problem.Problem
    held    \* an error value an earlier Validate call returned, kept by a caller

vars == <<op, arg, ret, gv, cannotBeEmptyArrayProblemJSON, held>>

---------------------------------------------------------------------------
(* strings *)

Digits == {"0", "1", "2", "3", "4", "5", "6", "7", "8", "9"}

Char(s, i) == SubSeq(s, i, i)

\* s[i-1:] of the source: the rest of s from position i on
From(s, i) == SubSeq(s, i, Len(s))

DigitVal(c) ==
    CASE c = "0" -> 0 [] c = "1" -> 1 [] c = "2" -> 2 [] c = "3" -> 3
      [] c = "4" -> 4 [] c = "5" -> 5 [] c = "6" -> 6 [] c = "7" -> 7
      [] c = "8" -> 8 [] c = "9" -> 9

RECURSIVE DecimalValue(_)
DecimalValue(s) ==
    IF s = "" THEN 0
    ELSE 10 * DecimalValue(SubSeq(s, 1, Len(s) - 1)) + DigitVal(Char(s, Len(s)))

AllDigits(s) == \A i \in 1..Len(s) : Char(s, i) \in Digits

HasPrefix(s, prefix) ==
    Len(s) >= Len(prefix) /\ SubSeq(s, 1, Len(prefix)) = prefix

\* the position of the first sep (one character) in s, 0 when there is none
IndexOf(s, sep) ==
    IF \E i \in 1..Len(s) : Char(s, i) = sep
    THEN CHOOSE i \in 1..Len(s) :
            Char(s, i) = sep /\ \A j \in 1..(i - 1) : Char(s, j) # sep
    ELSE 0

\* strings.Split(s, sep) for a one-character sep; i is the position of the
\* first sep in s
RECURSIVE Split(_, _)
SplitAt(s, sep, i) ==
    IF i = 0 THEN <<s>>
    ELSE <<SubSeq(s, 1, i - 1)>> \o Split(From(s, i + 1), sep)

Split(s, sep) == SplitAt(s, sep, IndexOf(s, sep))

\* strings.Join(elems, sep)
RECURSIVE Join(_, _)
Join(elems, sep) ==
    IF Len(elems) = 0 THEN ""
    ELSE IF Len(elems) = 1 THEN elems[1]
    ELSE elems[1] \o sep \o Join(Tail(elems), sep)

---------------------------------------------------------------------------
(* time.Parse, for the layouts of the package *)

defaultFormat == "2006-01-02T15:04:05Z07:00"
MilisecondsFormat == "2006-01-02T15:04:05.000Z"
DateTimeZeroFormat == "2006-01-02T15:04:05Z"

layouts == <<
    defaultFormat,
    "2006-01-02T15:04Z",
    DateTimeZeroFormat,
    MilisecondsFormat,
    "2006-01-02T15:04:05",
    "2006-01-02 15:04",
    "2006-01-02 15:04:05",
    "2006-01-02 15:04:05.000",
    "2006-01-02" >>

iso8601dateLayout == "2006-01-02"

isDigit(s, i) == i <= Len(s) /\ Char(s, i) \in Digits

\* The reference-time element the layout starts with, as time.nextStdChunk
\* finds it; "" when the layout starts with a literal character. Only the
\* elements the package's layouts hold are told apart.
StdAt(layout) ==
    CASE HasPrefix(layout, "2006") -> "2006"
      [] HasPrefix(layout, "01") -> "01"
      [] HasPrefix(layout, "02") -> "02"
      [] HasPrefix(layout, "04") -> "04"
      [] HasPrefix(layout, "05") -> "05"
      [] HasPrefix(layout, "15") -> "15"
      [] HasPrefix(layout, "Z07:00") -> "Z07:00"
      [] HasPrefix(layout, ".000") /\ ~isDigit(layout, 5) -> ".000"
      [] OTHER -> ""

\* the layout as the sequence of its elements, literal characters one by
\* one; std is the element the layout starts with
RECURSIVE Chunks(_)
ChunksFrom(layout, std) ==
    IF std = "" THEN <<[lit |-> Char(layout, 1)]>> \o Chunks(From(layout, 2))
    ELSE <<[std |-> std]>> \o Chunks(From(layout, Len(std) + 1))

Chunks(layout) == IF layout = "" THEN <<>> ELSE ChunksFrom(layout, StdAt(layout))

IsStd(chunk) == "std" \in DOMAIN chunk

commaOrPeriod(c) == c \in {".", ","}

\* the digits of time.atoi, after its sign
atoiDigits(digits, negative) ==
    IF ~AllDigits(digits) THEN [ok |-> FALSE, n |-> 0]
    ELSE [ok |-> TRUE,
          n |-> IF negative THEN 0 - DecimalValue(digits) ELSE DecimalValue(digits)]

\* time.atoi: an optional sign, then digits only
atoi(s) ==
    IF s # "" /\ Char(s, 1) \in {"-", "+"}
    THEN atoiDigits(From(s, 2), Char(s, 1) = "-")
    ELSE atoiDigits(s, FALSE)

\* time.getnum: one or two digits (two when fixed) at the start of s
getnum(s, fixed) ==
    IF ~isDigit(s, 1) THEN [ok |-> FALSE, n |-> 0, rest |-> s]
    ELSE IF ~isDigit(s, 2)
         THEN IF fixed THEN [ok |-> FALSE, n |-> 0, rest |-> s]
              ELSE [ok |-> TRUE, n |-> DigitVal(Char(s, 1)), rest |-> From(s, 2)]
         ELSE [ok |-> TRUE, n |-> DecimalValue(SubSeq(s, 1, 2)), rest |-> From(s, 3)]

RECURSIVE cutspace(_)
cutspace(s) == IF s # "" /\ Char(s, 1) = " " THEN cutspace(From(s, 2)) ELSE s

\* time.skip for a one-character prefix: a space of the layout matches any
\* run of spaces of the value, any other character matches itself
skip(value, c) ==
    IF c = " "
    THEN IF value # "" /\ Char(value, 1) # " "
         THEN [ok |-> FALSE, rest |-> value]
         ELSE [ok |-> TRUE, rest |-> cutspace(value)]
    ELSE IF value = "" \/ Char(value, 1) # c
         THEN [ok |-> FALSE, rest |-> value]
         ELSE [ok |-> TRUE, rest |-> From(value, 2)]

RECURSIVE Pow10(_)
Pow10(k) == IF k = 0 THEN 1 ELSE 10 * Pow10(k - 1)

\* the scaling of time.parseNanoseconds: a is the number read from the nb - 1
\* digits after the separator
scaleNanoseconds(a, nb) ==
    IF ~a.ok \/ a.n < 0 THEN [ok |-> FALSE, n |-> 0]
    ELSE [ok |-> TRUE, n |-> a.n * Pow10(10 - nb)]

\* time.parseNanoseconds(value, nbytes): value[0] is the separator
parseNanoseconds(value, nbytes) ==
    IF ~commaOrPeriod(Char(value, 1)) THEN [ok |-> FALSE, n |-> 0]
    ELSE IF nbytes > 10 THEN scaleNanoseconds(atoi(SubSeq(value, 2, 10)), 10)
    ELSE scaleNanoseconds(atoi(SubSeq(value, 2, nbytes)), nbytes)

\* the number of leading digits of s from position i on
RECURSIVE DigitRun(_, _)
DigitRun(s, i) == IF isDigit(s, i) THEN 1 + DigitRun(s, i + 1) ELSE 0

Fail(st) == [st EXCEPT !.ok = FALSE]

\* The cases of the loop of time.parse, one for each element of the layout,
\* on the parse state st: a is what atoi read, g what getnum read, ns what
\* parseNanoseconds read.
stdLongYear(st, a) ==
    IF ~a.ok THEN Fail(st)
    ELSE [st EXCEPT !.year = a.n, !.value = From(st.value, 5)]

stdZeroMonth(st, g) ==
    IF ~g.ok \/ g.n <= 0 \/ 12 < g.n THEN Fail(st)
    ELSE [st EXCEPT !.month = g.n, !.value = g.rest]

stdZeroDay(st, g) ==
    IF ~g.ok THEN Fail(st)
    ELSE [st EXCEPT !.day = g.n, !.value = g.rest]

stdHour(st, g) ==
    IF ~g.ok \/ 24 <= g.n THEN Fail(st)
    ELSE [st EXCEPT !.hour = g.n, !.value = g.rest]

stdZeroMinute(st, g) ==
    IF ~g.ok \/ 60 <= g.n THEN Fail(st)
    ELSE [st EXCEPT !.min = g.n, !.value = g.rest]

\* a fractional second of n - 1 digits that the layout does not name
stdFraction(st, g, n, ns) ==
    IF ~ns.ok THEN Fail(st)
    ELSE [st EXCEPT !.sec = g.n, !.nsec = ns.n, !.value = From(g.rest, n + 1)]

stdZeroSecond(st, g, next) ==
    IF ~g.ok \/ 60 <= g.n THEN Fail(st)
    ELSE IF /\ Len(g.rest) >= 2
            /\ commaOrPeriod(Char(g.rest, 1))
            /\ isDigit(g.rest, 2)
            /\ next # ".000"
         THEN stdFraction(st, g, 1 + DigitRun(g.rest, 2),
                          parseNanoseconds(g.rest, 1 + DigitRun(g.rest, 2)))
         ELSE [st EXCEPT !.sec = g.n, !.value = g.rest]

stdFracSecond0(st, ns) ==
    IF ~ns.ok THEN Fail(st)
    ELSE [st EXCEPT !.nsec = ns.n, !.value = From(st.value, 5)]

stdISO8601ColonTZ(st, sign, hr, mm) ==
    IF ~hr.ok \/ ~mm.ok \/ hr.n > 24 \/ mm.n > 60 \/ sign \notin {"+", "-"}
    THEN Fail(st)
    ELSE [st EXCEPT !.zoneOffset = IF sign = "-"
                                   THEN 0 - (hr.n * 60 + mm.n) * 60
                                   ELSE (hr.n * 60 + mm.n) * 60,
                    !.value = From(st.value, 7)]

\* One element of the layout applied to the parse state st, as the body of
\* the loop of time.parse does; next is the element after it, if any.
ParseStd(std, st, next) ==
    CASE std = "2006" ->
            IF Len(st.value) < 4 \/ ~isDigit(st.value, 1) THEN Fail(st)
            ELSE stdLongYear(st, atoi(SubSeq(st.value, 1, 4)))
      [] std = "01" -> stdZeroMonth(st, getnum(st.value, TRUE))
      [] std = "02" -> stdZeroDay(st, getnum(st.value, TRUE))
      [] std = "15" -> stdHour(st, getnum(st.value, FALSE))
      [] std = "04" -> stdZeroMinute(st, getnum(st.value, TRUE))
      [] std = "05" -> stdZeroSecond(st, getnum(st.value, TRUE), next)
      [] std = ".000" ->
            IF Len(st.value) < 4 THEN Fail(st)
            ELSE stdFracSecond0(st, parseNanoseconds(st.value, 4))
      [] std = "Z07:00" ->
            IF Len(st.value) >= 1 /\ Char(st.value, 1) = "Z"
            THEN [st EXCEPT !.value = From(st.value, 2)]
            ELSE IF Len(st.value) < 6 \/ Char(st.value, 4) # ":" THEN Fail(st)
            ELSE stdISO8601ColonTZ(st, Char(st.value, 1),
                                   getnum(SubSeq(st.value, 2, 3), TRUE),
                                   getnum(SubSeq(st.value, 5, 6), TRUE))

\* the element after the first of chunks, "" when it is a literal or missing
nextStd(chunks) ==
    IF Len(chunks) > 1 /\ IsStd(chunks[2]) THEN chunks[2].std ELSE ""

\* a literal of the layout applied to the parse state: s is what skip found
skipped(st, s) == [st EXCEPT !.ok = s.ok, !.value = s.rest]

RECURSIVE ParseChunks(_, _)
ParseChunks(chunks, st) ==
    IF ~st.ok \/ chunks = <<>> THEN st
    ELSE IF IsStd(Head(chunks))
         THEN ParseChunks(Tail(chunks), ParseStd(Head(chunks).std, st, nextStd(chunks)))
         ELSE ParseChunks(Tail(chunks), skipped(st, skip(st.value, Head(chunks).lit)))

isLeap(year) == year % 4 = 0 /\ (year % 100 # 0 \/ year % 400 = 0)

daysIn(month, year) ==
    IF month = 2 THEN (IF isLeap(year) THEN 29 ELSE 28)
    ELSE IF month \in {4, 6, 9, 11} THEN 30 ELSE 31

RECURSIVE daysBefore(_, _)
daysBefore(month, year) ==
    IF month = 1 THEN 0
    ELSE daysBefore(month - 1, year) + daysIn(month - 1, year)

\* days from 0000-01-01 to the first day of year
daysSinceYearZero(year) ==
    365 * year + ((year + 3) \div 4) - ((year + 99) \div 100) + ((year + 399) \div 400)

\* day and sec (which may be negative or past the day's end) as an instant:
\* <<day, second of the day, nanosecond>>
InstantAt(day, sec, nsec) ==
    << day + (sec \div 86400), sec % 86400, nsec >>

\* The instant of a parsed time, in UTC: time.Date in UTC, then
\* addSec(-zoneOffset), then Time.UTC().
Instant(st) ==
    InstantAt(daysSinceYearZero(st.year) + daysBefore(st.month, st.year) + st.day - 1,
              (st.hour * 60 + st.min) * 60 + st.sec - st.zoneOffset,
              st.nsec)

\* the state time.parse starts from
parseStart(value) ==
    [ok |-> TRUE, value |-> value, year |-> 0, month |-> 1, day |-> 1,
     hour |-> 0, min |-> 0, sec |-> 0, nsec |-> 0, zoneOffset |-> 0]

\* the end of time.parse: no text is left and the day is one of the month
parseEnd(st) ==
    IF /\ st.ok
       /\ st.value = ""
       /\ st.day >= 1
       /\ st.day <= daysIn(st.month, st.year)
    THEN [ok |-> TRUE, t |-> Instant(st)]
    ELSE [ok |-> FALSE, t |-> <<0, 0, 0>>]

\* time.Parse(layout, value): [ok, t]
Parse(layout, value) == parseEnd(ParseChunks(Chunks(layout), parseStart(value)))

\* Time.Before
Before(t, u) ==
    \/ t[1] < u[1]
    \/ t[1] = u[1] /\ t[2] < u[2]
    \/ t[1] = u[1] /\ t[2] = u[2] /\ t[3] < u[3]

\* the loop of parseToUTCTime from layout i on; parsed is what layout i gave
RECURSIVE parseFrom(_, _)
parseNext(parsed, i, timeString) ==
    IF parsed.ok THEN parsed ELSE parseFrom(i + 1, timeString)

parseFrom(i, timeString) ==
    IF i > Len(layouts) THEN [ok |-> FALSE, t |-> <<0, 0, 0>>]
    ELSE parseNext(Parse(layouts[i], timeString), i, timeString)

parseToUTCTime(timeString) == parseFrom(1, timeString)

---------------------------------------------------------------------------
(* records: struct types with their field tags, and values of them *)

\* A struct field: its Go identifier, its kind, and its json, param, query
\* and validate tags ("" when the field does not carry the tag).
Fld(name, kind, json, param, query, validate) ==
    [Name |-> name, kind |-> kind, json |-> json, param |-> param,
     query |-> query, validate |-> validate]

\* type Model of the tests
ModelType ==
    [name |-> "Model",
     fields |-> << Fld("RequiredField", "string", "required_field", "", "", "required") >>]

\* the anonymous struct of the date-gte tests, with a sibling that is no string
DatesType ==
    [name |-> "",
     fields |-> << Fld("Field1", "string", "", "", "", ""),
                   Fld("Field2", "string", "field2", "", "", "strdatetimegte=Field1"),
                   Fld("Count", "int", "count", "", "", "") >>]

\* a struct whose rule names several siblings: one with json options, one
\* with json options only, one omitted from json, one that does not exist
ContactType ==
    [name |-> "Contact",
     fields |-> << Fld("Email", "string", "email", "", "",
                       "required_without_all=Phone Mobile Doc Fax"),
                   Fld("Phone", "string", "phone,omitempty", "", "", ""),
                   Fld("Mobile", "string", ",omitempty", "mobile", "", ""),
                   Fld("Doc", "string", "-", "", "doc", ""),
                   Fld("Name", "string", "", "", "name", "required_with=Phone") >>]

AddressType ==
    [name |-> "Address",
     fields |-> << Fld("Since", "string", "since", "", "", "iso8601date") >>]

\* a struct with a nested struct: violation paths of three segments
OrderType ==
    [name |-> "Order",
     fields |-> << Fld("Address", "struct", "address", "", "", "") >>]

\* the anonymous struct of TestDoValidate_CustomTag
CustomType ==
    [name |-> "",
     fields |-> << Fld("CustomField", "string", "custom_field", "", "",
                       "customValidationEnum") >>]

StringOf(s) == [kind |-> "string", s |-> s]
IntOf(n) == [kind |-> "int", n |-> n]
StructOf(type, vals) == [kind |-> "struct", type |-> type, vals |-> vals]
PtrTo(v) == [kind |-> "ptr", elem |-> v]
NilPtr == [kind |-> "ptr", elem |-> [kind |-> "nil"]]
SliceOf(elems) == [kind |-> "slice", elems |-> elems]
Nil == [kind |-> "nil"]
Invalid == [kind |-> "invalid"]

\* reflect.Value.String(): the string of a string, "<T Value>" otherwise
String(v) ==
    CASE v.kind = "string" -> v.s
      [] v.kind = "invalid" -> "<invalid Value>"
      [] v.kind = "int" -> "<int Value>"
      [] OTHER -> "<" \o v.kind \o " Value>"

\* reflect.Type.FieldByName: the position of the field, 0 when there is none
FieldIndex(type, name) ==
    IF \E i \in 1..Len(type.fields) : type.fields[i].Name = name
    THEN CHOOSE i \in 1..Len(type.fields) : type.fields[i].Name = name
    ELSE 0

\* reflect.Value.FieldByName on a struct value: the zero (invalid)
\* reflect.Value when there is no such field
FieldByName(v, name) ==
    IF FieldIndex(v.type, name) = 0 THEN Invalid
    ELSE v.vals[FieldIndex(v.type, name)]

\* the zero reflect.StructField: no tags
NoField == Fld("", "", "", "", "", "")

\* reflect.Type.FieldByName, its second result dropped: the zero StructField
\* when there is no such field
StructFieldByName(type, name) ==
    IF FieldIndex(type, name) = 0 THEN NoField
    ELSE type.fields[FieldIndex(type, name)]

---------------------------------------------------------------------------
(* the field name resolver *)

\* the tag chosen for one identifier: json, else param, else query, else the
\* identifier itself
tagOf(otherFieldVal, field) ==
    IF otherFieldVal.json # "" THEN otherFieldVal.json
    ELSE IF otherFieldVal.param # "" THEN otherFieldVal.param
    ELSE IF otherFieldVal.query # "" THEN otherFieldVal.query
    ELSE field

\* the body of the loop of getJsonTagNameFromPropertyName for one identifier
jsonNameOf(type, field) ==
    Split(tagOf(StructFieldByName(type, field), field), ",")[1]

\* the loop of getJsonTagNameFromPropertyName over the identifiers; pointr is
\* the struct, or what the pointer points to (reflect panics on FieldByName
\* of any other type)
jsonNames(pointr, fields) ==
    IF pointr.kind # "struct"
    THEN [panic |-> TRUE, names |-> <<>>]
    ELSE [panic |-> FALSE,
          names |-> [i \in 1..Len(fields) |-> jsonNameOf(pointr.type, fields[i])]]

\* getJsonTagNameFromPropertyName(param, body)
getJsonTagNameFromPropertyName(param, body) ==
    jsonNames(IF body.kind = "ptr" THEN body.elem ELSE body, Split(param, " "))

---------------------------------------------------------------------------
(* the domain rules *)

\* validator.FieldLevel: the field's value, the rule's parameter, the
\* enclosing struct
FieldLevel(field, param, parent) == [field |-> field, param |-> param, parent |-> parent]

\* the sibling the rule's parameter names
otherFieldVal(fl) ==
    IF fl.parent.kind = "ptr"
    THEN FieldByName(fl.parent.elem, fl.param)
    ELSE FieldByName(fl.parent, fl.param)

\* the comparison of validateDatetimeGTE, on what parseToUTCTime returned
\* for the field and for its sibling
notBefore(referenceField, compareField) ==
    IF ~referenceField.ok THEN FALSE
    ELSE IF ~compareField.ok THEN FALSE
    ELSE IF Before(referenceField.t, compareField.t) THEN FALSE
    ELSE TRUE

validateDatetimeGTE_strict(fl) ==
    /\ parseToUTCTime(String(fl.field)).ok
    /\ parseToUTCTime(String(otherFieldVal(fl))).ok
    /\ Before(parseToUTCTime(String(otherFieldVal(fl))).t,
              parseToUTCTime(String(fl.field)).t)

validateDatetimeGTE(fl) ==
    notBefore(parseToUTCTime(String(fl.field)),
              parseToUTCTime(String(otherFieldVal(fl))))

validateISO8601Date(fl) == Parse(iso8601dateLayout, String(fl.field)).ok

\* validCustomEnum of the tests, registered as customValidationEnum
validEnums == <<"1", "2">>

validCustomEnum(fl) == \E i \in 1..Len(validEnums) : String(fl.field) = validEnums[i]

---------------------------------------------------------------------------
(* construction: NewValidator *)

customPrefix == "custom"

datetimeGteTag == "strdatetimegte"
documentTag == "document"
decimal2placesTag == "decimal2places"
brZipCodeTag == "brzipcode"
iso8601dateTag == "iso8601date"

mustBeGteMessage == " must be greater than or equal "
decimal2placesMessage == " must be in a decimal value format as %.2f"
documentMessage == " must be a valid cpf or cnpj"
zipCodeMessage == " must be a valid br zip code"
isoMessage == " must be a YYYY-MM-DD format date"

ErrInvalidCustomValidationTag ==
    "the custom tag must starts with 'custom' characters. (i.e validate:\"customMyValidation\")"

\* A Go map is a set of [k, v] entries with distinct keys; a nil map is {}.
Keys(m) == {e.k : e \in m}

Lookup(m, k) == (CHOOSE e \in m : e.k = k).v

\* a nil func(fl validator.FieldLevel) bool
NilFunc == "nil"

\* the characters validator refuses in the name of a registered rule (all but
\* the backquote, which a string of this module cannot hold)
restrictedTagChars == ".[],|=+()~!@#$%^&*\\\"/?<>{}"

\* validator.Validate.RegisterValidation(tag, fn), as NewValidator calls it:
\* an error for an empty name or a nil function, a panic for a restricted name
RegisterValidation(tag, fn) ==
    IF Len(tag) = 0 THEN [kind |-> "error", err |-> "function Key cannot be empty"]
    ELSE IF fn = NilFunc THEN [kind |-> "error", err |-> "function cannot be empty"]
    ELSE IF \E i \in 1..Len(tag) : IndexOf(restrictedTagChars, Char(tag, i)) # 0
    THEN [kind |-> "panic"]
    ELSE [kind |-> "ok"]

\* the rules validator.New() ships that the records here use
bakedInValidators ==
    { [k |-> "required", v |-> "hasValue"],
      [k |-> "required_without_all", v |-> "requiredWithoutAll"],
      [k |-> "required_with", v |-> "requiredWith"] }

\* the five registrations that follow the loop over customValidations
domainValidators ==
    { [k |-> datetimeGteTag, v |-> "validateDatetimeGTE"],
      [k |-> documentTag, v |-> "validDocument"],
      [k |-> decimal2placesTag, v |-> "validDecimalValue"],
      [k |-> brZipCodeTag, v |-> "validateBrZipCode"],
      [k |-> iso8601dateTag, v |-> "validateISO8601Date"] }

\* a later registration of a name replaces an earlier one
Register(validations, entries) ==
    {e \in validations : e.k \notin Keys(entries)} \cup entries


\* The loop over customValidations, visiting the keys in the order given: the
\* first key without the prefix, or the first failed registration, ends it.
\* registered is what the engine holds so far.
RECURSIVE registerCustom(_, _, _)
registerNext(order, customValidations, registered, k, v, err) ==
    IF err.kind # "ok" THEN err
    ELSE registerCustom(Tail(order), customValidations,
                        Register(registered, {[k |-> k, v |-> v]}))

registerEntry(order, customValidations, registered, k, v) ==
    IF ~HasPrefix(k, customPrefix)
    THEN [kind |-> "error", err |-> ErrInvalidCustomValidationTag]
    ELSE registerNext(order, customValidations, registered, k, v,
                      RegisterValidation(k, v))

registerCustom(order, customValidations, registered) ==
    IF order = <<>> THEN [kind |-> "ok", validations |-> registered]
    ELSE registerEntry(order, customValidations, registered,
                       Head(order), Lookup(customValidations, Head(order)))

\* the rest of NewValidator, after the loop: the five registrations and the
\* genericValidator
newGenericValidator(looped, messageErrors) ==
    IF looped.kind # "ok" THEN looped
    ELSE [kind |-> "engine",
          engine |-> [validations |-> Register(looped.validations, domainValidators),
                      messageErrors |-> messageErrors]]

\* NewValidator(customValidations, messageErrors) when the range over the map
\* visits its keys in this order: an engine, an error, or a panic
NewValidator(order, customValidations, messageErrors) ==
    newGenericValidator(registerCustom(order, customValidations, bakedInValidators),
                        messageErrors)

\* the orders in which a range over the map may visit its keys
Orders(m) ==
    {o \in [1..Cardinality(Keys(m)) -> Keys(m)] :
        \A i, j \in DOMAIN o : i # j => o[i] # o[j]}

---------------------------------------------------------------------------
(* the generic engine: validator.Validate.Struct, as the package uses it *)

\* the function NewValidator hands to RegisterTagNameFunc
TagNameFunc(fld) ==
    IF Split(fld.json, ",")[1] = "-" THEN "" ELSE Split(fld.json, ",")[1]

\* the name the engine reports a field under: the tag name, the Go
\* identifier when the tag name is empty
altName(fld) == IF TagNameFunc(fld) # "" THEN TagNameFunc(fld) ELSE fld.Name

\* one rule of a validate tag: "tag" or "tag=param", eq the position of "="
ruleOf(item, eq) ==
    IF eq = 0 THEN [tag |-> item, param |-> ""]
    ELSE [tag |-> SubSeq(item, 1, eq - 1), param |-> From(item, eq + 1)]

rulesOf(items) == [i \in 1..Len(items) |-> ruleOf(items[i], IndexOf(items[i], "="))]

\* the rules of a validate tag: "tag=param" items separated by commas
Rules(validate) == IF validate = "" THEN <<>> ELSE rulesOf(Split(validate, ","))

\* validator's hasValue: the field is not the zero value of its kind
hasValue(v) ==
    CASE v.kind = "string" -> v.s # ""
      [] v.kind = "int" -> v.n # 0
      [] OTHER -> v.kind # "invalid"

\* validator's requireCheckFieldKind(fl, param, TRUE): the named sibling is
\* zero, or does not exist
siblingIsZero(fl, name) == ~hasValue(FieldByName(fl.parent, name))

\* one of the siblings the parameter names is not zero
someSibling(fl, names) == \E i \in 1..Len(names) : ~siblingIsZero(fl, names[i])

requiredWithoutAll(fl) ==
    IF someSibling(fl, Split(fl.param, " ")) THEN TRUE ELSE hasValue(fl.field)

requiredWith(fl) ==
    IF someSibling(fl, Split(fl.param, " ")) THEN hasValue(fl.field) ELSE TRUE

\* the registered function fn applied to a field
CallValidation(fn, fl) ==
    CASE fn = "hasValue" -> hasValue(fl.field)
      [] fn = "requiredWithoutAll" -> requiredWithoutAll(fl)
      [] fn = "requiredWith" -> requiredWith(fl)
      [] fn = "validateDatetimeGTE" -> validateDatetimeGTE(fl)
      [] fn = "validateISO8601Date" -> validateISO8601Date(fl)
      [] fn = "validCustomEnum" -> validCustomEnum(fl)

\* the rule names of a type from field i on, those of its nested structs
\* included
RECURSIVE TagsOf(_, _)
TagsOf(val, i) ==
    IF i > Len(val.type.fields) THEN {}
    ELSE {Rules(val.type.fields[i].validate)[j].tag :
            j \in 1..Len(Rules(val.type.fields[i].validate))}
         \cup (IF val.type.fields[i].kind = "struct" THEN TagsOf(val.vals[i], 1) ELSE {})
         \cup TagsOf(val, i + 1)

\* the first rule of the field that fails, as a sequence of at most one error
RECURSIVE fieldErrors(_, _, _, _)
fieldErrors(engine, rules, fl, err) ==
    IF rules = <<>> THEN <<>>
    ELSE IF CallValidation(Lookup(engine.validations, Head(rules).tag),
                           [fl EXCEPT !.param = Head(rules).param])
         THEN fieldErrors(engine, Tail(rules), fl, err)
         ELSE << [err EXCEPT !.tag = Head(rules).tag, !.param = Head(rules).param] >>

\* The violations of the fields of a struct from field i on, in field order;
\* ns is the path of the struct, with its trailing dot. fld is field i and
\* name the name the engine reports it under.
RECURSIVE structErrors(_, _, _, _)
structFieldErrors(engine, val, ns, i, fld, name) ==
    IF fld.kind = "struct"
    THEN structErrors(engine, val.vals[i], ns \o name \o ".", 1)
    ELSE fieldErrors(engine, Rules(fld.validate),
                     FieldLevel(val.vals[i], "", val),
                     [ns |-> ns \o name, field |-> name, tag |-> "", param |-> ""])

structErrors(engine, val, ns, i) ==
    IF i > Len(val.type.fields) THEN <<>>
    ELSE structFieldErrors(engine, val, ns, i, val.type.fields[i],
                           altName(val.type.fields[i]))
         \o structErrors(engine, val, ns, i + 1)

\* Struct on the value a pointer was followed to
StructValue(engine, val) ==
    IF val.kind # "struct" THEN [kind |-> "InvalidValidationError", errs |-> <<>>]
    ELSE IF ~(TagsOf(val, 1) \subseteq Keys(engine.validations))
    THEN [kind |-> "panic", errs |-> <<>>]
    ELSE [kind |-> "ValidationErrors",
          errs |-> structErrors(engine, val,
                                IF val.type.name # "" THEN val.type.name \o "." ELSE "", 1)]

\* tagValidator.Struct(body): the ordered violations of a struct or of a
\* non-nil pointer to one (nil when there are none), an
\* InvalidValidationError for any other value, a panic for a rule name that
\* was never registered
Struct(engine, body) ==
    StructValue(engine,
                IF body.kind = "ptr" /\ body.elem.kind # "nil" THEN body.elem ELSE body)

\* validationError.Translate(gv.trans): the en translation of required, the
\* error's own text for a rule without a translation
Translate(err) ==
    IF err.tag = "required" THEN err.field \o " is a required field"
    ELSE "Key: '" \o err.ns \o "' Error:Field validation for '" \o err.field
         \o "' failed on the '" \o err.tag \o "' tag"

---------------------------------------------------------------------------
(* the error translator *)

StatusBadRequest == 400

\* problem.New(problem.Status(400), problem.Title("Cannot be empty.")): the
\* value the package-level variable is initialised with
emptyArrayProblem == [status |-> StatusBadRequest, title |-> "Cannot be empty."]

\* (*problem.Problem).Append(problem.Custom(key, value)) and the like: the
\* option sets its key in the problem's data, in place
AppendOption(p, key, value) == (key :> value) @@ p

\* the name of an InvalidParam, from the violation's Namespace()
paramName_keepsTwo(namespace) ==
    IF Len(Split(namespace, ".")) > 2
    THEN Join(Tail(Split(namespace, ".")), ".")
    ELSE namespace

paramName(namespace) ==
    IF Len(Split(namespace, ".")) > 1
    THEN Join(Tail(Split(namespace, ".")), ".")
    ELSE namespace

\* the reason of a required_without_all violation
requiredWithoutAllReason_noField(err, tags) ==
    "at least one of these fields are required: " \o Join(tags, ", ")

requiredWithoutAllReason(err, tags) ==
    "at least one of these fields are required: " \o err.field \o ", " \o Join(tags, ", ")

\* a reason, and the reason of a case that called the resolver (which may
\* have panicked)
Reason(r) == [panic |-> FALSE, reason |-> r]

Resolved(tags, r) == IF tags.panic THEN [panic |-> TRUE, reason |-> ""] ELSE Reason(r)

\* the switch of validate over the violated rule: [panic, reason]
reasonOf(engine, err, body) ==
    CASE HasPrefix(err.tag, customPrefix) ->
            IF err.tag \in Keys(engine.messageErrors)
            THEN Reason(Lookup(engine.messageErrors, err.tag))
            ELSE Reason("")
      [] err.tag = "required_without_all" ->
            Resolved(getJsonTagNameFromPropertyName(err.param, body),
                     requiredWithoutAllReason(
                        err, getJsonTagNameFromPropertyName(err.param, body).names))
      [] err.tag = "required_with" ->
            Resolved(getJsonTagNameFromPropertyName(err.param, body),
                     err.field \o " is required if one of these fields are filled: "
                     \o Join(getJsonTagNameFromPropertyName(err.param, body).names, ", "))
      [] err.tag = datetimeGteTag ->
            Resolved(getJsonTagNameFromPropertyName(err.param, body),
                     err.field \o mustBeGteMessage
                     \o getJsonTagNameFromPropertyName(err.param, body).names[1])
      [] err.tag = documentTag -> Reason(err.field \o documentMessage)
      [] err.tag = decimal2placesTag -> Reason(err.field \o decimal2placesMessage)
      [] err.tag = brZipCodeTag -> Reason(err.field \o zipCodeMessage)
      [] err.tag = iso8601dateTag -> Reason(err.field \o isoMessage)
      [] OTHER -> Reason(Translate(err))

\* what a *problem.Problem or an error is here: a panic instead of a value, the
\* untyped nil, a nil *problem.Problem (as a pointer, or inside an error
\* interface), or a problem; ref tells the package-level problem from one
\* allocated by the call, json is its data when the call returned
Panic == [kind |-> "panic"]
NilError == [kind |-> "nil"]
NilProblem == [kind |-> "nil *problem.Problem"]
Problem(ref, json) == [kind |-> "problem", ref |-> ref, json |-> json]

\* the loop of validate over the violations: invalidParams
invalidParams(validationErrors, reasons) ==
    [index \in 1..Len(validationErrors) |->
        [name |-> paramName(validationErrors[index].ns),
         reason |-> reasons[index].reason]]

\* the problem validate returns for a non-empty list of violations
invalidParamsProblem(validationErrors, reasons) ==
    IF \E index \in 1..Len(validationErrors) : reasons[index].panic THEN Panic
    ELSE Problem("fresh", AppendOption([status |-> StatusBadRequest], "invalid_params",
                                       invalidParams(validationErrors, reasons)))

\* validate after tagValidator.Struct(body) returned err
validateErr(engine, body, err) ==
    IF err.kind = "panic" THEN Panic
    ELSE IF err.kind = "InvalidValidationError"
    THEN Panic      \* err.(validator.ValidationErrors) on another error type
    ELSE IF Len(err.errs) > 0
    THEN invalidParamsProblem(
            err.errs, [index \in 1..Len(err.errs) |-> reasonOf(engine, err.errs[index], body)])
    ELSE NilProblem

\* genericValidator.validate(body): a *problem.Problem
validate(engine, body) == validateErr(engine, body, Struct(engine, body))

---------------------------------------------------------------------------
(* the inputs *)

MaxLen == 2     \* the longest slice passed to Validate
MaxIds == 2     \* the most identifiers in a rule parameter passed to the resolver

ModelRecords == {StructOf(ModelType, <<StringOf(v)>>) : v \in {"", "xpto"}}

DatesRecords ==
    {StructOf(DatesType, <<StringOf(d[1]), StringOf(d[2]), IntOf(0)>>) :
        d \in { <<"2022-05-01", "2022-01-01">>, <<"a", "a">>,
                <<"2022-01-01", "2022-01-01">> }}

ContactRecords ==
    {StructOf(ContactType,
              <<StringOf(e), StringOf(ph), StringOf(""), StringOf(""), StringOf("")>>) :
        e \in {"", "a@b.c"}, ph \in {"", "555"}}

OrderRecords ==
    {StructOf(OrderType, <<StructOf(AddressType, <<StringOf(d)>>)>>) :
        d \in {"2022-12-12", "2022-12-99"}}

CustomRecords == {StructOf(CustomType, <<StringOf(v)>>) : v \in {"1", "invalidEnum"}}

Records == ModelRecords \cup DatesRecords \cup ContactRecords \cup OrderRecords
           \cup CustomRecords

\* the contact records slices are made of: each violates another rule
ContactSliceRecords ==
    {StructOf(ContactType,
              <<StringOf(""), StringOf(ph), StringOf(""), StringOf(""), StringOf("")>>) :
        ph \in {"", "555"}}

\* the sequences over S of length lo..hi
SeqsOf(S, lo, hi) == UNION {[1..n -> S] : n \in lo..hi}

\* []T for a struct type T, the empty slice included; []string
Slices ==
    {SliceOf(elems) : elems \in SeqsOf(ModelRecords, 0, MaxLen)}
    \cup {SliceOf(elems) : elems \in SeqsOf(ContactSliceRecords, 1, MaxLen)}
    \cup {SliceOf(elems) : elems \in SeqsOf({StringOf("a")}, 1, 1)}

\* everything else a caller may pass: nil, a scalar, a map, an array, a nil
\* pointer, a pointer to a scalar
OtherBodies ==
    { Nil, StringOf("a"), IntOf(1), [kind |-> "map"],
      [kind |-> "array", elems |-> <<StructOf(ModelType, <<StringOf("")>>)>>],
      NilPtr, PtrTo(StringOf("a")) }

Bodies == Records \cup {PtrTo(r) : r \in Records} \cup Slices \cup OtherBodies

\* the custom rules and messages engines are constructed with
CustomRuleNames == {"customValidationEnum", "customOther", "invalidCustomTag", "custom=x"}

CustomFuncs == {"validCustomEnum", NilFunc}

\* the maps from some of the names to functions
CustomValidations ==
    UNION {{ {[k |-> n, v |-> f[n]] : n \in names} : f \in [names -> CustomFuncs]} :
            names \in SUBSET CustomRuleNames}

MessageErrors ==
    { {}, {[k |-> "customValidationEnum", v |-> "custom_field must be one of this values [1 2]"]} }

\* the engines of the validation runs: NewValidator(nil, nil) and the engine
\* of TestDoValidate_CustomTag
Engines ==
    { NewValidator(<<>>, {}, {}).engine,
      NewValidator(<<"customValidationEnum">>,
                   {[k |-> "customValidationEnum", v |-> "validCustomEnum"]},
                   {[k |-> "customValidationEnum",
                     v |-> "custom_field must be one of this values [1 2]"]}).engine }

\* the values the date-gte rule is run on
DateSamples ==
    { "2022-01-01", "2022-05-01", "a", "", "2022-01-01T00:00:00Z",
      "2022-01-01T02:00:00+03:00", "2021-12-31T23:00Z", "2022-01-01 10:30",
      "2022-01-01T10:30:00", "2022-01-01T10:30:00.500Z", "2022-01-01 10:30:00.500",
      "2022-01-01T10:30:00.5", "2022-12-99", "2022-02-29", "2020-02-29" }

\* the rule parameters the date-gte rule is run with: a string sibling, a
\* sibling that is no string, a name that is no field
DateParams == {"Field1", "Count", "Missing"}

\* the identifiers the resolver is asked for
Identifiers == {"Email", "Phone", "Mobile", "Doc", "Name", "Fax", "RequiredField", "Field1"}

ResolverParams ==
    {Join(ids, " ") : ids \in SeqsOf(Identifiers, 1, MaxIds)}

\* the records the resolver is run against: one of each type with siblings
ResolverRecords ==
    { CHOOSE r \in ContactRecords : TRUE,
      CHOOSE r \in ModelRecords : TRUE,
      CHOOSE r \in DatesRecords : TRUE }

ResolverBodies == ResolverRecords \cup {PtrTo(r) : r \in ResolverRecords}

---------------------------------------------------------------------------
(* the dispatcher *)

\* the values validate is called with: the records, pointers to them, and
\* what is no record
ValidatedValues ==
    Records \cup {PtrTo(r) : r \in Records} \cup {NilPtr, PtrTo(StringOf("a")), StringOf("a")}

\* tagValidator.Struct and validate, evaluated once for each engine and value
\* of the model
validateTable ==
    {[engine |-> e, body |-> b, err |-> Struct(e, b), problemJSON |-> validate(e, b)] :
        e \in Engines, b \in ValidatedValues}

\* what tagValidator.Struct(body) returned inside the call gv.validate(body)
validationErrors(engine, body) ==
    IF engine \in Engines /\ body \in ValidatedValues
    THEN (CHOOSE t \in validateTable : t.engine = engine /\ t.body = body).err
    ELSE Struct(engine, body)

\* the call gv.validate(body)
validated(engine, body) ==
    IF engine \in Engines /\ body \in ValidatedValues
    THEN (CHOOSE t \in validateTable : t.engine = engine /\ t.body = body).problemJSON
    ELSE validate(engine, body)

\* the loop of Validate over the elements of a slice; problemJSON is what
\* validate returned for the first of elems
RECURSIVE validateElements_last(_, _)
lastProblem(problemJSON, rest) ==
    IF problemJSON = Panic THEN Panic
    ELSE IF rest # NilError THEN rest
    ELSE IF problemJSON # NilProblem THEN problemJSON
    ELSE NilError

validateElements_last(engine, elems) ==
    IF elems = <<>> THEN NilError
    ELSE lastProblem(validated(engine, Head(elems)),
                     validateElements_last(engine, Tail(elems)))

RECURSIVE validateElements(_, _)
validateElement(engine, elems, problemJSON) ==
    IF problemJSON # NilProblem THEN problemJSON
    ELSE validateElements(engine, Tail(elems))

validateElements(engine, elems) ==
    IF elems = <<>> THEN NilError
    ELSE validateElement(engine, elems, validated(engine, Head(elems)))


\* genericValidator.Validate(body): an error. The result of validate is
\* returned as it is in the struct case: a nil *problem.Problem becomes an
\* error that holds a nil pointer.
Validate(engine, body) ==
    IF body.kind = "nil" THEN Panic     \* reflect.TypeOf(nil).Kind()
    ELSE CASE body.kind = "slice" ->
                IF Len(body.elems) = 0
                THEN Problem("global", cannotBeEmptyArrayProblemJSON)
                ELSE validateElements(engine, body.elems)
           [] body.kind \in {"struct", "interface", "ptr"} -> validated(engine, body)
           [] OTHER -> NilError

---------------------------------------------------------------------------
(* the state machine *)

NoEngine == [validations |-> {}, messageErrors |-> {}]
NoHeld == [kind |-> "none"]
NoArg == [kind |-> "none"]

\* NewValidator runs on the maps the caller passes; the range over
\* customValidations visits its keys in any order
NewValidatorCall ==
    /\ op = "call NewValidator"
    /\ \E order \in Orders(arg.customValidations) :
        \E r \in {NewValidator(order, arg.customValidations, arg.messageErrors)} :
            /\ ret' = r
            /\ gv' = IF r.kind = "engine" THEN r.engine ELSE NoEngine
    /\ op' = "NewValidator"
    /\ UNCHANGED <<arg, cannotBeEmptyArrayProblemJSON, held>>

\* a caller validates a body with its engine
ValidateCall ==
    \E body \in Bodies :
        /\ op' = "Validate"
        /\ arg' = body
        /\ ret' = Validate(gv, body)
        /\ UNCHANGED <<gv, cannotBeEmptyArrayProblemJSON, held>>

\* the caller keeps the error value the last Validate call returned
CallerKeeps ==
    /\ op = "Validate"
    /\ held' = [kind |-> "held", body |-> arg, ret |-> ret]
    /\ op' = "CallerKeeps"
    /\ UNCHANGED <<arg, ret, gv, cannotBeEmptyArrayProblemJSON>>

\* The caller adds to the problem it was returned (Append works in place):
\* a title, or its own invalid_params. A problem allocated by the call is the
\* caller's alone; the package-level one is the one every later call returns.
CallerAppends ==
    /\ held # NoHeld
    /\ held.ret.kind = "problem"
    /\ op' = "CallerAppends"
    /\ \/ cannotBeEmptyArrayProblemJSON' =
            IF held.ret.ref = "global"
            THEN AppendOption(cannotBeEmptyArrayProblemJSON, "title", "Bad request.")
            ELSE cannotBeEmptyArrayProblemJSON
       \/ cannotBeEmptyArrayProblemJSON' =
            IF held.ret.ref = "global"
            THEN AppendOption(cannotBeEmptyArrayProblemJSON, "invalid_params",
                              <<[name |-> "body", reason |-> "body is empty"]>>)
            ELSE cannotBeEmptyArrayProblemJSON
    /\ UNCHANGED <<arg, ret, gv, held>>

\* the date-gte rule runs on the field the engine hands it
DatetimeGTECall ==
    /\ op = "call validateDatetimeGTE"
    /\ op' = "validateDatetimeGTE"
    /\ ret' = [kind |-> "bool", ok |-> validateDatetimeGTE(arg)]
    /\ UNCHANGED <<arg, gv, cannotBeEmptyArrayProblemJSON, held>>

\* the resolver runs on a rule parameter and the validated record
ResolverCall ==
    /\ op = "call getJsonTagNameFromPropertyName"
    /\ op' = "getJsonTagNameFromPropertyName"
    /\ ret' = getJsonTagNameFromPropertyName(arg.param, arg.body)
    /\ UNCHANGED <<arg, gv, cannotBeEmptyArrayProblemJSON, held>>

\* the fields the date-gte rule is run on: Field2 of a struct (or of a pointer
\* to it), with each rule parameter
DateFieldLevels ==
    { FieldLevel(StringOf(field), param,
                 IF byPointer
                 THEN PtrTo(StructOf(DatesType, <<StringOf(other), StringOf(field), IntOf(0)>>))
                 ELSE StructOf(DatesType, <<StringOf(other), StringOf(field), IntOf(0)>>)) :
        field \in DateSamples, other \in DateSamples, param \in DateParams,
        byPointer \in BOOLEAN }

Start ==
    /\ ret = NilError
    /\ cannotBeEmptyArrayProblemJSON = emptyArrayProblem
    /\ held = NoHeld

\* validation: the engine was constructed, callers validate and keep or
\* change what they are returned
Init == Start /\ op = "init" /\ arg = NoArg /\ gv \in Engines
Next == ValidateCall \/ CallerKeeps \/ CallerAppends
Spec == Init /\ [][Next]_vars

\* construction, for each pair of maps a caller may pass
InitNew ==
    /\ Start
    /\ op = "call NewValidator"
    /\ gv = NoEngine
    /\ arg \in {[customValidations |-> c, messageErrors |-> m] :
                    c \in CustomValidations, m \in MessageErrors}
NextNew == NewValidatorCall
SpecNew == InitNew /\ [][NextNew]_vars

\* the date-gte rule, for each field it may be run on
InitDate ==
    /\ Start
    /\ op = "call validateDatetimeGTE"
    /\ gv = NoEngine
    /\ arg \in DateFieldLevels
NextDate == DatetimeGTECall
SpecDate == InitDate /\ [][NextDate]_vars

\* the resolver, for each rule parameter and record
InitResolve ==
    /\ Start
    /\ op = "call getJsonTagNameFromPropertyName"
    /\ gv = NoEngine
    /\ arg \in {[param |-> p, body |-> b] : p \in ResolverParams, b \in ResolverBodies}
NextResolve == ResolverCall
SpecResolve == InitResolve /\ [][NextResolve]_vars

---------------------------------------------------------------------------
(* the properties *)

\* The result the contract gives a slice: that of the element of least index
\* whose result is a problem, no error when there is none.
LeastViolation(engine, elems) ==
    LET failing == {i \in 1..Len(elems) : validated(engine, elems[i]) # NilProblem}
    IN  IF failing = {} THEN NilError
        ELSE validated(engine, elems[CHOOSE i \in failing : \A j \in failing : i <= j])

\* C1: Validate on a non-empty slice of records returns the result of the
\* element of least index that has a violation, whatever later elements
\* violate, and no error (the untyped nil) when no element has one.
C1_SliceReturnsLeastViolation ==
    (/\ op = "Validate"
     /\ arg.kind = "slice"
     /\ Len(arg.elems) > 0
     /\ \A i \in 1..Len(arg.elems) : arg.elems[i].kind = "struct")
    => ret = LeastViolation(gv, arg.elems)

\* a slice of two records that violate different rules was validated, and the
\* result is that of the first
C1_Witness ==
    /\ op = "Validate"
    /\ arg.kind = "slice"
    /\ Len(arg.elems) = 2
    /\ validated(gv, arg.elems[1]).kind = "problem"
    /\ validated(gv, arg.elems[2]).kind = "problem"
    /\ validated(gv, arg.elems[1]) # validated(gv, arg.elems[2])
    /\ ret = validated(gv, arg.elems[1])

\* the record, or the record the pointer points to, has no violation
IsValidRecord(engine, body) ==
    /\ body.kind \in {"struct", "ptr"}
    /\ validationErrors(engine, body).kind = "ValidationErrors"
    /\ validationErrors(engine, body).errs = <<>>

\* C2: Validate on a single record (a struct or a pointer to one) that
\* violates no rule returns an error that is equal to nil for the caller.
C2_ValidRecordReturnsNil ==
    (op = "Validate" /\ IsValidRecord(gv, arg)) => ret = NilError

\* C3: Validate on an empty slice returns the fixed empty-collection error:
\* status 400, title "Cannot be empty.", and nothing else.
C3_EmptySliceReturnsFixedError ==
    (op = "Validate" /\ arg.kind = "slice" /\ Len(arg.elems) = 0)
    => ret = Problem("global", emptyArrayProblem)

\* C4: NewValidator on a map that holds a name without the prefix "custom"
\* returns ErrInvalidCustomValidationTag and no engine, whatever the other
\* entries are and in whatever order the map is visited.
C4_NameWithoutPrefixFailsWithFixedError ==
    (/\ op = "NewValidator"
     /\ \E k \in Keys(arg.customValidations) : ~HasPrefix(k, customPrefix))
    => /\ ret = [kind |-> "error", err |-> ErrInvalidCustomValidationTag]
       /\ gv = NoEngine

\* C5: Validate returns, for every value it is passed: it never panics.
C5_ValidateNeverPanics == op = "Validate" => ret # Panic

\* the layouts of the package a value parses under
ParsesUnder(value) == {i \in 1..Len(layouts) : Parse(layouts[i], value).ok}

\* C6: the date-gte rule holds exactly when the field and the named sibling
\* both parse under some layout of the package and the field's instant is
\* not before the sibling's; it fails when the parameter names no field.
C6_DateGteIffBothParseAndNotBefore ==
    op = "validateDatetimeGTE" =>
        LET field == String(arg.field)
            sibling == String(otherFieldVal(arg))
            record == IF arg.parent.kind = "ptr" THEN arg.parent.elem ELSE arg.parent
        IN  /\ ret.ok <=>
                /\ ParsesUnder(field) # {}
                /\ ParsesUnder(sibling) # {}
                /\ \A i \in ParsesUnder(field), j \in ParsesUnder(sibling) :
                        ~Before(Parse(layouts[i], field).t, Parse(layouts[j], sibling).t)
            /\ FieldIndex(record.type, arg.param) = 0 => ~ret.ok

\* the rule ran on a field and a sibling that name one instant in two zones
\* and two layouts, and held
C6_Witness ==
    /\ op = "validateDatetimeGTE"
    /\ arg.param = "Field1"
    /\ String(arg.field) = "2022-01-01T02:00:00+03:00"
    /\ String(otherFieldVal(arg)) = "2021-12-31T23:00Z"
    /\ ret.ok

\* a dotted path without its first segment; the path itself when it has one
\* segment only
WithoutFirstSegment(path) ==
    IF IndexOf(path, ".") = 0 THEN path ELSE From(path, IndexOf(path, ".") + 1)

\* Validate returned the problem of a single record's violations
ReturnedViolations ==
    /\ op = "Validate"
    /\ arg.kind \in {"struct", "ptr"}
    /\ ret.kind = "problem"

\* C7: the name of each InvalidParam is the violation's path without its
\* first segment when the path has more than one, the path itself otherwise.
C7_NameDropsOneLeadingSegment ==
    ReturnedViolations =>
        LET errs == validationErrors(gv, arg).errs
        IN  /\ Len(ret.json.invalid_params) = Len(errs)
            /\ \A i \in 1..Len(errs) :
                ret.json.invalid_params[i].name = WithoutFirstSegment(errs[i].ns)

\* a violation in a nested struct, a path of three segments, was reported
\* under its last two
C7_Witness ==
    /\ ReturnedViolations
    /\ validationErrors(gv, arg).errs[1].ns = "Order.address.since"
    /\ ret.json.invalid_params[1].name = "address.since"

C9_SameInputSameResult ==
    (op = "Validate" /\ held # NoHeld /\ held.body = arg) => ret = held.ret

\* the first non-empty of the names, the last when all before it are empty
RECURSIVE FirstNonEmpty(_)
FirstNonEmpty(names) ==
    IF Len(names) = 1 \/ Head(names) # "" THEN Head(names)
    ELSE FirstNonEmpty(Tail(names))

\* the name of a tag: the tag up to its first comma, without its options
TagName(tag) == Split(tag, ",")[1]

\* the external name of an identifier: the first non-empty of the field's
\* json, param and query names, the identifier when all are empty or the
\* type has no such field
ExternalName(type, field) ==
    LET f == StructFieldByName(type, field)
    IN  FirstNonEmpty(<<TagName(f.json), TagName(f.param), TagName(f.query), field>>)

\* C10: the resolver returns, for each identifier of the list and in its
\* order, the first non-empty of the field's json, param and query names,
\* the identifier itself otherwise; it does not panic.
C10_ResolverReturnsFirstNonEmptyName ==
    op = "getJsonTagNameFromPropertyName" =>
        LET fields == Split(arg.param, " ")
            record == IF arg.body.kind = "ptr" THEN arg.body.elem ELSE arg.body
        IN  /\ ~ret.panic
            /\ Len(ret.names) = Len(fields)
            /\ \A i \in 1..Len(fields) :
                    ret.names[i] = ExternalName(record.type, fields[i])

\* the external name of a field whose json name is the omit marker "-": the
\* first non-empty of its param and query names, the identifier otherwise
NameBehindOmitMarker(type, field) ==
    LET f == StructFieldByName(type, field)
    IN  FirstNonEmpty(<<TagName(f.param), TagName(f.query), field>>)

\* C11: for an identifier whose field carries the json name "-", the resolver
\* does not stop at the marker: it returns the first non-empty of the field's
\* param and query names, the identifier otherwise, and never "-".
C11_OmitMarkerFallsThrough ==
    op = "getJsonTagNameFromPropertyName" =>
        LET fields == Split(arg.param, " ")
            record == IF arg.body.kind = "ptr" THEN arg.body.elem ELSE arg.body
        IN  \A i \in 1..Len(fields) :
                TagName(StructFieldByName(record.type, fields[i]).json) = "-" =>
                    /\ ret.names[i] # "-"
                    /\ ret.names[i] = NameBehindOmitMarker(record.type, fields[i])

===========================================================================
